---- MODULE Spec2Model ----
(***************************************************************************)
(* Data Redundancy Removal System (Data_Redundancy_Removal_System.py).     *)
(*                                                                         *)
(* A line is a sequence of one-character strings.  The data table is the   *)
(* sequence of its rows in rowid order, together with the AUTOINCREMENT    *)
(* counter SQLite keeps for it in sqlite_sequence.  The session is the     *)
(* loop of main(); insert_unique is split at the point between its         *)
(* existence check (classify) and its INSERT, where another connection to  *)
(* the same database file can commit a row.                                *)
(***************************************************************************)
EXTENDS Integers, Sequences, FiniteSets, TLC

\* ---------------------------------------------------------------- bounds
MaxLen == 1      \* every line over Alphabet up to this length is an input
MaxTime == 1     \* the clock (seconds) runs from 0 to MaxTime
MaxStr == 3      \* normalize is studied on every string up to this length

\* ------------------------------------------------------------ characters
Alphabet == {"A", " "}

\* str.isspace() on the characters of the model
IsSpace(c) == c \in {" ", "\t"}

\* str.lower() on one character.  "Sigma", "sigma" and "fsigma" stand for
\* the characters U+03A3 (capital sigma), U+03C3 (small sigma) and U+03C2
\* (small final sigma).
lower_char(c) ==
    CASE c = "A" -> "a" [] c = "B" -> "b" [] c = "E" -> "e"
      [] c = "X" -> "x" [] c = "I" -> "i" [] c = "T" -> "t"
      [] c = "S" -> "s" [] c = "H" -> "h" [] c = "O" -> "o"
      [] c = "W" -> "w" [] c = "R" -> "r"
      [] c = "Sigma" -> "sigma" [] OTHER -> c

\* a cased character (every character of the model but whitespace is a letter)
IsCased(c) == ~IsSpace(c)

\* str.lower() gives a capital sigma its final form when a cased character
\* precedes it and none follows it
FinalSigma(s, i) ==
    /\ s[i] = "Sigma"
    /\ i > 1
    /\ IsCased(s[i - 1])
    /\ (i = Len(s) \/ ~IsCased(s[i + 1]))

\* str.lower()
lower(s) ==
    [i \in 1..Len(s) |-> IF FinalSigma(s, i) THEN "fsigma" ELSE lower_char(s[i])]

RECURSIVE lstrip(_)
lstrip(s) ==
    IF s = <<>> THEN <<>>
    ELSE IF IsSpace(Head(s)) THEN lstrip(Tail(s)) ELSE s

RECURSIVE rstrip(_)
rstrip(s) ==
    IF s = <<>> THEN <<>>
    ELSE IF IsSpace(s[Len(s)]) THEN rstrip(SubSeq(s, 1, Len(s) - 1)) ELSE s

\* str.strip()
strip(s) == rstrip(lstrip(s))

\* length of the longest prefix of s without whitespace
RECURSIVE WordLen(_)
WordLen(s) ==
    IF s = <<>> \/ IsSpace(Head(s)) THEN 0 ELSE 1 + WordLen(Tail(s))

\* str.split() with no argument: the maximal runs of non-whitespace
RECURSIVE split(_)
split(s) ==
    LET t == lstrip(s) IN
    IF t = <<>> THEN <<>>
    ELSE LET n == WordLen(t) IN
         <<SubSeq(t, 1, n)>> \o split(SubSeq(t, n + 1, Len(t)))

\* " ".join(words)
RECURSIVE join(_)
join(words) ==
    IF words = <<>> THEN <<>>
    ELSE IF Len(words) = 1 THEN words[1]
    ELSE words[1] \o <<" ">> \o join(Tail(words))

\* str.replace("  ", " "): left to right, without overlap
RECURSIVE replace_double_space(_)
replace_double_space(s) ==
    IF Len(s) < 2 THEN s
    ELSE IF s[1] = " " /\ s[2] = " "
         THEN <<" ">> \o replace_double_space(SubSeq(s, 3, Len(s)))
         ELSE <<s[1]>> \o replace_double_space(Tail(s))

\* normalize written as value.replace("  ", " ").lower()
normalize_replace_double(value) == lower(replace_double_space(value))

normalize(value) == lower(join(split(value)))

\* ---------------------------------------------------------------- inputs
RECURSIVE SeqsUpTo(_, _)
SeqsUpTo(S, n) ==
    IF n = 0 THEN {<<>>}
    ELSE LET shorter == SeqsUpTo(S, n - 1) IN
         shorter \cup {Append(s, c) : s \in {t \in shorter : Len(t) = n - 1}, c \in S}

KeywordLines ==
    { <<"e","x","i","t">>, <<"E","X","I","T">>, <<" ","E","x","i","t">>,
      <<"s","h","o","w">>, <<"S","h","o","W","\t">>,
      <<"r","e","s","e","t">>, <<" ","R","E","S","E","T"," ">> }

PhraseLines ==
    { <<"a">>, <<"\t","a"," ">>,
      <<"a"," ","b">>, <<"A"," "," ","B">>, <<" ","a","\t","b"," ">>,
      <<" ","\t"," ">> }

Lines == SeqsUpTo(Alphabet, MaxLen) \cup KeywordLines \cup PhraseLines

\* the strings normalize is studied on
StrAlphabet == {"a", "A", " ", "\t", "Sigma", "sigma"}

Strs == SeqsUpTo(StrAlphabet, MaxStr)

\* Python's None as a raw_value (no line equals it)
None == <<"None">>

\* ----------------------------------------------------------------- store
\* a row of table data: (id, value, value_norm, created_at)
Row(id, value, value_norm, created_at) ==
    [id |-> id, value |-> value, value_norm |-> value_norm, created_at |-> created_at]

\* the database file: whether table data exists, its rows in rowid order,
\* and the sqlite_sequence counter of its AUTOINCREMENT column
Db(exists, rows, seq) == [exists |-> exists, rows |-> rows, seq |-> seq]

\* INSERT INTO data (value, value_norm, created_at) without the UNIQUE check
sql_insert_no_unique(rows, seq, value, value_norm, ts) ==
    [ok |-> TRUE, seq |-> seq + 1,
     rows |-> Append(rows, Row(seq + 1, value, value_norm, ts))]

\* INSERT OR REPLACE: a conflicting row is deleted and the new one stored
sql_insert_or_replace(rows, seq, value, value_norm, ts) ==
    [ok |-> TRUE, seq |-> seq + 1,
     rows |-> Append(SelectSeq(rows, LAMBDA r : r.value_norm # value_norm),
                     Row(seq + 1, value, value_norm, ts))]

\* INSERT that takes the next id without advancing sqlite_sequence
sql_insert_reuse_id(rows, seq, value, value_norm, ts) ==
    IF \E i \in 1..Len(rows) : rows[i].value_norm = value_norm
    THEN [ok |-> FALSE, seq |-> seq, rows |-> rows]
    ELSE [ok |-> TRUE, seq |-> seq,
          rows |-> Append(rows, Row(seq + 1, value, value_norm, ts))]

\* INSERT INTO data (value, value_norm, created_at) VALUES (?, ?, ?):
\* value_norm is UNIQUE, so a row with the same key makes the statement fail
\* (sqlite3.IntegrityError) and changes nothing; otherwise the new row gets
\* the next AUTOINCREMENT id
sql_insert(rows, seq, value, value_norm, ts) ==
    IF \E i \in 1..Len(rows) : rows[i].value_norm = value_norm
    THEN [ok |-> FALSE, seq |-> seq, rows |-> rows]
    ELSE [ok |-> TRUE, seq |-> seq + 1,
          rows |-> Append(rows, Row(seq + 1, value, value_norm, ts))]

\* init_db that drops the table whatever reset is
init_db_always_drop(db, reset) == Db(TRUE, <<>>, 0)

\* init_db that never drops the table
init_db_no_drop(db, reset) ==
    IF db.exists THEN db ELSE Db(TRUE, <<>>, 0)

\* init_db: DROP TABLE IF EXISTS when reset (this also deletes the table's
\* sqlite_sequence entry), then CREATE TABLE IF NOT EXISTS, then commit
init_db(db, reset) ==
    LET dropped == IF reset THEN Db(FALSE, <<>>, 0) ELSE db IN
    IF dropped.exists THEN dropped ELSE Db(TRUE, <<>>, 0)

\* SELECT 1 FROM data WHERE value_norm = ? LIMIT 1 ... fetchone() is not None
sql_exists(rows, v_norm) == \E i \in 1..Len(rows) : rows[i].value_norm = v_norm

\* classify without the blank check
classify_no_blank_check(rows, raw_value) ==
    IF raw_value = None THEN "false_positive"
    ELSE IF sql_exists(rows, normalize(strip(raw_value))) THEN "redundant" ELSE "unique"

\* classify that looks the trimmed text up without normalizing it
classify_no_normalize(rows, raw_value) ==
    IF raw_value = None THEN "false_positive"
    ELSE IF strip(raw_value) = <<>> THEN "false_positive"
    ELSE IF sql_exists(rows, strip(raw_value)) THEN "redundant" ELSE "unique"

\* classify that tests and looks up raw_value without stripping it first
classify_no_strip(rows, raw_value) ==
    IF raw_value = None THEN "false_positive"
    ELSE IF raw_value = <<>> THEN "false_positive"
    ELSE IF sql_exists(rows, normalize(raw_value)) THEN "redundant" ELSE "unique"

classify(rows, raw_value) ==
    IF raw_value = None THEN "false_positive"
    ELSE LET v == strip(raw_value) IN
         IF v = <<>> THEN "false_positive"
         ELSE IF sql_exists(rows, normalize(v)) THEN "redundant" ELSE "unique"

\* whether classify reaches its SELECT
classify_queries(raw_value) ==
    IF raw_value = None THEN FALSE ELSE strip(raw_value) # <<>>

\* the parameters insert_unique binds: the normalized text stored as value
insert_args_stores_norm(raw_value) ==
    [v |-> normalize(strip(raw_value)), v_norm |-> normalize(strip(raw_value))]

\* the parameters insert_unique binds to its INSERT
insert_args(raw_value) ==
    LET v == strip(raw_value) IN [v |-> v, v_norm |-> normalize(v)]

\* insert_unique that prints the confirmation whether or not the INSERT
\* succeeded
insert_outcome_always_inserted(ok) == "inserted"

\* insert_unique without the except clause
insert_outcome_uncaught(ok) == IF ok THEN "inserted" ELSE "crash"

\* what insert_unique prints after its INSERT: the confirmation, or, when
\* sqlite3.IntegrityError is caught, the redundant notice
insert_outcome(ok) == IF ok THEN "inserted" ELSE "redundant"

\* rows in descending id order (ORDER BY id DESC)
order_by_id_desc(rows) == [i \in 1..Len(rows) |-> rows[Len(rows) + 1 - i]]

\* rows in ascending id order
RECURSIVE order_by_id(_)
order_by_id(rows) ==
    IF rows = <<>> THEN <<>>
    ELSE LET m == CHOOSE i \in 1..Len(rows) :
                      \A j \in 1..Len(rows) : rows[i].id <= rows[j].id
         IN <<rows[m]>> \o order_by_id(SubSeq(rows, 1, m - 1) \o SubSeq(rows, m + 1, Len(rows)))

\* show_data: SELECT id, value, created_at FROM data ORDER BY id, then the
\* empty notice or one printed line per row
show_data(rows) ==
    LET sel == order_by_id(rows) IN
    IF sel = <<>> THEN [showed |-> "empty", printed |-> <<>>]
    ELSE [showed |-> "entries",
          printed |-> [i \in 1..Len(sel) |-> <<sel[i].id, sel[i].value, sel[i].created_at>>]]

\* keyword test that compares the line as typed
is_keyword_case_sensitive(user_input, kw) == user_input = kw

\* user_input.lower() == "exit" | "show" | "reset"
is_keyword(user_input, kw) == lower(user_input) = kw

KwExit == <<"e","x","i","t">>
KwShow == <<"s","h","o","w">>
KwReset == <<"r","e","s","e","t">>

\* ----------------------------------------------------------------- state
VARIABLES
    pc,          \* where the process is: "start", "prompt" (blocked in input()),
                 \* "dispatch" (a line was read), "inserting" (insert_unique is
                 \* between classify and its INSERT), "terminated", "crashed";
                 \* for a direct call of insert_unique: "call", "call_inserting",
                 \* "returned"
    tableExists, \* table data exists in the database file
    table,       \* its rows, in rowid order
    seq,         \* sqlite_sequence value of table data
    txOpen,      \* the session's connection holds an open write transaction
    now,         \* the clock, in seconds
    line,        \* the line input() returned last, as typed
    user_input,  \* main's user_input: that line stripped
    raw,         \* raw_value of the running insert_unique call (None when main
                 \* is not inside one)
    last,        \* what the current handler has done and printed so far: the
                 \* command, classify's result, whether its SELECT and the
                 \* INSERT ran, how many rows a reset removed, the notice
                 \* printed last, every notice insert_unique printed (out)
                 \* and what show_data printed
    conn,        \* "none", "open", "closed": the sqlite3 connection of main
    exitCode,    \* exit status of the process, -1 while it runs
    maxId,       \* history: the greatest id any INSERT of this run was given
    norm         \* arguments and results of the normalize calls under study

vars == <<pc, tableExists, table, seq, txOpen, now, line, user_input, raw, last,
          conn, exitCode, maxId, norm>>

Quiet ==
    [op |-> "none", cls |-> "none", queried |-> FALSE, attempted |-> FALSE,
     dropped |-> 0, notice |-> "none", out |-> <<>>, showed |-> "none",
     printed |-> <<>>]

\* no normalize call under study
NoNorm == [s1 |-> None, s2 |-> None, n1 |-> None, n2 |-> None, nn |-> None]

\* database files earlier sessions of the program can have left behind
PersistedDbs ==
    { Db(FALSE, <<>>, 0),
      Db(TRUE, <<>>, 0),
      Db(TRUE, <<Row(1, <<"A">>, <<"a">>, 0)>>, 1) }

Init ==
    /\ pc = "start"
    /\ \E db \in PersistedDbs :
          /\ tableExists = db.exists
          /\ table = db.rows
          /\ seq = db.seq
    /\ txOpen = FALSE
    /\ now = 0
    /\ line = <<>>
    /\ user_input = <<>>
    /\ raw = None
    /\ last = Quiet
    /\ conn = "none"
    /\ exitCode = -1
    /\ maxId = 0
    /\ norm = NoNorm

\* --------------------------------------------------------------- actions
\* main, lines 79-87: parse --reset, connect(), init_db(conn, reset=args.reset)
Start ==
    /\ pc = "start"
    /\ \E reset \in BOOLEAN :
          LET db == init_db(Db(tableExists, table, seq), reset) IN
          /\ tableExists' = db.exists
          /\ table' = db.rows
          /\ seq' = db.seq
          /\ last' = [Quiet EXCEPT !.op = IF reset THEN "start_reset" ELSE "start",
                                   !.dropped = Len(table) - Len(db.rows)]
    /\ conn' = "open"
    /\ pc' = "prompt"
    /\ UNCHANGED <<txOpen, now, line, user_input, raw, exitCode,
                   maxId, norm>>

\* the clock advances
Tick ==
    /\ now < MaxTime
    /\ now' = now + 1
    /\ UNCHANGED <<pc, tableExists, table, seq, txOpen, line, user_input, raw,
                   last, conn, exitCode,
                   maxId, norm>>

\* line 90: input() returns a line, which is stripped
ReadLine ==
    /\ pc = "prompt"
    /\ \E l \in Lines :
          /\ line' = l
          /\ user_input' = strip(l)
    /\ last' = Quiet
    /\ pc' = "dispatch"
    /\ UNCHANGED <<tableExists, table, seq, txOpen, now, raw, conn, exitCode,
                   maxId, norm>>

\* line 90: input() raises EOFError at end of input; nothing catches it, so
\* the interpreter prints the traceback and exits with status 1, and
\* conn.close() (line 106) is not reached
EndOfInput ==
    /\ pc = "prompt"
    /\ pc' = "crashed"
    /\ exitCode' = 1
    /\ last' = [Quiet EXCEPT !.op = "eof"]
    /\ txOpen' = FALSE
    /\ UNCHANGED <<tableExists, table, seq, now, line, user_input, raw, conn,
                   maxId, norm>>

\* lines 92-93 and 106: exit breaks the loop, conn.close(), normal return
ExitCmd ==
    /\ pc = "dispatch"
    /\ is_keyword(user_input, KwExit)
    /\ conn' = "closed"
    /\ txOpen' = FALSE
    /\ pc' = "terminated"
    /\ exitCode' = 0
    /\ last' = [Quiet EXCEPT !.op = "exit"]
    /\ UNCHANGED <<tableExists, table, seq, now, line, user_input, raw,
                   maxId, norm>>

\* lines 94-96
ShowCmd ==
    /\ pc = "dispatch"
    /\ ~is_keyword(user_input, KwExit)
    /\ is_keyword(user_input, KwShow)
    /\ LET sh == show_data(table) IN
       last' = [Quiet EXCEPT !.op = "show", !.showed = sh.showed, !.printed = sh.printed]
    /\ pc' = "prompt"
    /\ UNCHANGED <<tableExists, table, seq, txOpen, now, line, user_input, raw,
                   conn, exitCode,
                   maxId, norm>>

\* lines 97-101: init_db(conn, reset=True) (which commits), the reset
\* notice, show_data
ResetCmd ==
    /\ pc = "dispatch"
    /\ ~is_keyword(user_input, KwExit)
    /\ ~is_keyword(user_input, KwShow)
    /\ is_keyword(user_input, KwReset)
    /\ LET db == init_db(Db(tableExists, table, seq), TRUE)
           sh == show_data(db.rows)
       IN /\ tableExists' = db.exists
          /\ table' = db.rows
          /\ seq' = db.seq
          /\ last' = [Quiet EXCEPT !.op = "reset", !.notice = "reset",
                                   !.dropped = Len(table) - Len(db.rows),
                                   !.showed = sh.showed, !.printed = sh.printed]
    /\ txOpen' = FALSE
    /\ pc' = "prompt"
    /\ UNCHANGED <<now, line, user_input, raw, conn, exitCode,
                   maxId, norm>>

\* insert_unique, lines 47-54, for raw_value rv: classify; the two notices
\* that end the call at once.  atMain says that main called (line 103), so
\* that show_data (line 104) follows the return.
InsertUniqueHead(rv, atMain) ==
    LET cls == classify(table, rv)
        q == classify_queries(rv)
        sh == show_data(table)
        rec == [Quiet EXCEPT !.op = "candidate", !.cls = cls, !.queried = q]
    IN /\ IF cls = "unique"
          THEN /\ pc' = IF atMain THEN "inserting" ELSE "call_inserting"
               /\ raw' = rv
               /\ last' = rec
          ELSE /\ pc' = IF atMain THEN "prompt" ELSE "returned"
               /\ raw' = IF atMain THEN None ELSE rv
               /\ last' = IF atMain
                          THEN [rec EXCEPT !.notice = cls, !.out = <<cls>>,
                                           !.showed = sh.showed,
                                           !.printed = sh.printed]
                          ELSE [rec EXCEPT !.notice = cls, !.out = <<cls>>]

\* line 103: any other line is a candidate value
Candidate ==
    /\ pc = "dispatch"
    /\ ~is_keyword(user_input, KwExit)
    /\ ~is_keyword(user_input, KwShow)
    /\ ~is_keyword(user_input, KwReset)
    /\ InsertUniqueHead(user_input, TRUE)
    /\ UNCHANGED <<tableExists, table, seq, txOpen, now, line, user_input, conn,
                   exitCode,
                   maxId, norm>>

\* insert_unique, lines 56-67: the INSERT, commit and confirmation, or the
\* caught IntegrityError (the implicit transaction of the failed statement
\* stays open); then, in main, show_data (line 104)
InsertStep ==
    /\ pc \in {"inserting", "call_inserting"}
    /\ LET atMain == (pc = "inserting")
           args == insert_args(raw)
           res == sql_insert(table, seq, args.v, args.v_norm, now)
           outcome == insert_outcome(res.ok)
           sh == show_data(res.rows)
       IN /\ table' = res.rows
          /\ seq' = res.seq
          /\ maxId' = IF res.ok /\ res.rows[Len(res.rows)].id > maxId
                       THEN res.rows[Len(res.rows)].id ELSE maxId
          /\ txOpen' = IF res.ok THEN FALSE ELSE TRUE
          /\ raw' = IF atMain THEN None ELSE raw
          /\ IF outcome = "crash"
             THEN /\ pc' = "crashed"
                  /\ exitCode' = 1
                  /\ last' = [last EXCEPT !.attempted = TRUE]
             ELSE /\ pc' = IF atMain THEN "prompt" ELSE "returned"
                  /\ exitCode' = exitCode
                  /\ last' = IF atMain
                             THEN [last EXCEPT !.attempted = TRUE, !.notice = outcome,
                                               !.out = Append(last.out, outcome),
                                               !.showed = sh.showed, !.printed = sh.printed]
                             ELSE [last EXCEPT !.attempted = TRUE, !.notice = outcome,
                                               !.out = Append(last.out, outcome)]
    /\ UNCHANGED <<tableExists, now, line, user_input, conn,
                   norm>>

\* another connection to the same database file (a second instance of the
\* program) stores a value: its INSERT goes through the same table and the
\* same UNIQUE constraint.  It waits while the session holds the write lock.
\* A commit while the session is blocked in input() is indistinguishable, to
\* the session, from the same commit right after the line is read, so
\* commits are taken from there on.
ExternalInsert ==
    /\ pc \in {"dispatch", "inserting", "call_inserting"}
    /\ tableExists
    /\ ~txOpen
    /\ \E l \in Lines :
          LET args == insert_args(l)
              res == sql_insert(table, seq, args.v, args.v_norm, now)
          IN /\ classify(table, l) = "unique"
             /\ ~is_keyword(strip(l), KwExit)
             /\ ~is_keyword(strip(l), KwShow)
             /\ ~is_keyword(strip(l), KwReset)
             /\ res.ok
             /\ table' = res.rows
             /\ seq' = res.seq
             /\ maxId' = IF res.rows[Len(res.rows)].id > maxId
                          THEN res.rows[Len(res.rows)].id ELSE maxId
    /\ UNCHANGED <<pc, tableExists, txOpen, now, line, user_input, raw, last,
                   conn, exitCode,
                   norm>>

Next ==
    \/ Start
    \/ Tick
    \/ ReadLine
    \/ EndOfInput
    \/ ExitCmd
    \/ ShowCmd
    \/ ResetCmd
    \/ Candidate
    \/ InsertStep
    \/ ExternalInsert

Spec == Init /\ [][Next]_vars

\* ------------------------------------------- insert_unique called directly
\* tables the program can have built when insert_unique is called
CallDbs ==
    { Db(TRUE, <<>>, 0),
      Db(TRUE, <<Row(1, <<"A">>, <<"a">>, 0)>>, 1),
      Db(TRUE, <<Row(1, <<"A">>, <<"a">>, 0),
                 Row(2, <<"A"," "," ","B">>, <<"a"," ","b">>, 0)>>, 2) }

\* any raw_value, None included, on an open connection
InitCall ==
    /\ pc = "call"
    /\ \E db \in CallDbs :
          /\ tableExists = db.exists
          /\ table = db.rows
          /\ seq = db.seq
    /\ raw \in Lines \cup {None}
    /\ txOpen = FALSE
    /\ now = 0
    /\ line = <<>>
    /\ user_input = <<>>
    /\ last = Quiet
    /\ conn = "open"
    /\ exitCode = -1
    /\ maxId = 0
    /\ norm = NoNorm

\* insert_unique(conn, raw), lines 47-54
CallInsertUnique ==
    /\ pc = "call"
    /\ InsertUniqueHead(raw, FALSE)
    /\ UNCHANGED <<tableExists, table, seq, txOpen, now, line, user_input, conn,
                   exitCode,
                   maxId, norm>>

NextCall ==
    \/ CallInsertUnique
    \/ InsertStep
    \/ ExternalInsert
    \/ Tick

SpecCall == InitCall /\ [][NextCall]_vars

TypeOK ==
    /\ pc \in {"start", "prompt", "dispatch", "inserting", "terminated", "crashed",
               "call", "call_inserting", "returned",
               "normalize", "renormalize", "normalize_pair", "normalized"}
    /\ tableExists \in BOOLEAN
    /\ seq \in Nat
    /\ txOpen \in BOOLEAN
    /\ now \in 0..MaxTime
    /\ conn \in {"none", "open", "closed"}
    /\ exitCode \in {-1, 0, 1}


\* ------------------------------------------------- normalize called alone
\* the values every other variable has while only normalize is called
Idle ==
    /\ tableExists = FALSE
    /\ table = <<>>
    /\ seq = 0
    /\ txOpen = FALSE
    /\ now = 0
    /\ line = <<>>
    /\ user_input = <<>>
    /\ raw = None
    /\ last = Quiet
    /\ conn = "none"
    /\ exitCode = -1
    /\ maxId = 0

IdleVars == <<tableExists, table, seq, txOpen, now, line, user_input, raw, last,
              conn, exitCode, maxId>>

\* normalize(s) and then normalize of its result, for any string s
InitNorm ==
    /\ pc = "normalize"
    /\ \E s \in Strs : norm = [NoNorm EXCEPT !.s1 = s]
    /\ Idle

NormalizeOnce ==
    /\ pc = "normalize"
    /\ norm' = [norm EXCEPT !.n1 = normalize(norm.s1)]
    /\ pc' = "renormalize"
    /\ UNCHANGED IdleVars

NormalizeAgain ==
    /\ pc = "renormalize"
    /\ norm' = [norm EXCEPT !.nn = normalize(norm.n1)]
    /\ pc' = "normalized"
    /\ UNCHANGED IdleVars

NextNorm ==
    \/ NormalizeOnce
    \/ NormalizeAgain

SpecNorm == InitNorm /\ [][NextNorm]_vars

\* normalize(s1) and normalize(s2), for any two strings
InitNormPair ==
    /\ pc = "normalize_pair"
    /\ \E a, b \in Strs : norm = [NoNorm EXCEPT !.s1 = a, !.s2 = b]
    /\ Idle

NormalizePair ==
    /\ pc = "normalize_pair"
    /\ norm' = [norm EXCEPT !.n1 = normalize(norm.s1), !.n2 = normalize(norm.s2)]
    /\ pc' = "normalized"
    /\ UNCHANGED IdleVars

NextNormPair == NormalizePair

SpecNormPair == InitNormPair /\ [][NextNormPair]_vars

\* ---------------------------------------------------------------- claims
Keywords == {KwExit, KwShow, KwReset}

\* every character of s is whitespace (s is blank)
Blank(s) == \A i \in 1..Len(s) : IsSpace(s[i])

\* the rows of t whose key is k
RowsWithKey(t, k) == {i \in 1..Len(t) : t[i].value_norm = k}

\* a step of the session that drops the table: the reset command, or the
\* start with --reset
ResetStep == pc' # pc /\ last'.op \in {"reset", "start_reset"}

\* the session's INSERT step of insert_unique (lines 56-67)
SessionInsertStep == pc = "inserting" /\ pc' # pc

\* C1: in every reachable state no two rows of table data have the same
\* normalized value
C1_UniqueNormalizedValue ==
    \A i, j \in 1..Len(table) :
        i # j => table[i].value_norm # table[j].value_norm

\* C1 witness: two rows are stored and the session's INSERT has just lost to
\* a row committed by another connection after its existence check
C1_Witness ==
    /\ Len(table) >= 2
    /\ pc = "prompt"
    /\ last.cls = "unique"
    /\ last.attempted
    /\ last.notice = "redundant"

\* C2: when the session's INSERT for a line runs and no row has the line's
\* key, exactly one row is added, with value = the line trimmed and
\* value_norm = normalize(value); and across every step that is not a reset
\* each key that has a row keeps exactly that one row with the same value
C2_FirstOccurrenceStored ==
    [][ /\ (SessionInsertStep /\ RowsWithKey(table, normalize(line)) = {})
            => /\ Len(table') = Len(table) + 1
               /\ SubSeq(table', 1, Len(table)) = table
               /\ table'[Len(table')].value = strip(line)
               /\ table'[Len(table')].value_norm = normalize(table'[Len(table')].value)
        /\ ~ResetStep
            => \A i \in 1..Len(table) :
                   /\ Cardinality(RowsWithKey(table', table[i].value_norm)) = 1
                   /\ \E j \in 1..Len(table') :
                          /\ table'[j].value_norm = table[i].value_norm
                          /\ table'[j].value = table[i].value
      ]_vars

\* C2 witness: the line " a<TAB>b " was stored as value "a<TAB>b" under
\* the key "a b"
C2_Witness ==
    /\ pc = "prompt"
    /\ last.notice = "inserted"
    /\ line = <<" ", "a", "\t", "b", " ">>
    /\ \E i \in 1..Len(table) :
          /\ table[i].value = <<"a", "\t", "b">>
          /\ table[i].value_norm = <<"a", " ", "b">>

\* C3: a candidate line whose key has no row is classified unique and goes
\* on to the INSERT, which (when no other connection stored the key in
\* between) adds one row and prints the confirmation; a candidate line whose
\* key already has a row is classified redundant, prints the redundant
\* notice, attempts no INSERT and leaves the table as it was
C3_SecondInsertIsDuplicate ==
    [][ /\ (pc = "dispatch" /\ pc' # pc /\ lower(user_input) \notin Keywords
             /\ ~Blank(user_input))
            => IF RowsWithKey(table, normalize(user_input)) = {}
               THEN /\ last'.cls = "unique"
                    /\ pc' = "inserting"
                    /\ table' = table
               ELSE /\ last'.cls = "redundant"
                    /\ last'.notice = "redundant"
                    /\ ~last'.attempted
                    /\ pc' = "prompt"
                    /\ table' = table
                    /\ seq' = seq
        /\ (SessionInsertStep /\ RowsWithKey(table, normalize(user_input)) = {})
            => /\ Len(table') = Len(table) + 1
               /\ last'.notice = "inserted"
      ]_vars

\* C3 witness: "A  B" was refused as redundant against the stored "a b"
C3_Witness ==
    /\ pc = "prompt"
    /\ user_input = <<"A", " ", " ", "B">>
    /\ last.cls = "redundant"
    /\ ~last.attempted
    /\ \E i \in 1..Len(table) : table[i].value = <<"a", " ", "b">>

\* C4: when the session's INSERT runs after another connection stored the
\* same key (classify had returned unique), the table is left as it was with
\* exactly one row for the key, the redundant notice is printed and the
\* session goes back to its prompt without an exit status
C4_RaceLoserReportsDuplicate ==
    [][ (SessionInsertStep /\ RowsWithKey(table, normalize(raw)) # {})
            => /\ table' = table
               /\ seq' = seq
               /\ Cardinality(RowsWithKey(table', normalize(raw))) = 1
               /\ last'.cls = "unique"
               /\ last'.attempted
               /\ last'.notice = "redundant"
               /\ pc' = "prompt"
               /\ exitCode' = -1
               /\ conn' = "open"
      ]_vars

\* C4 witness: the session typed "a", another connection stored a row with
\* key "a" first, and the session reported redundant and is still running
C4_Witness ==
    /\ pc = "prompt"
    /\ normalize(user_input) = <<"a">>
    /\ last.cls = "unique"
    /\ last.attempted
    /\ last.notice = "redundant"
    /\ Cardinality(RowsWithKey(table, <<"a">>)) = 1
    /\ exitCode = -1

\* C5: insert_unique of None, of the empty string or of a whitespace-only
\* string prints the false-positive notice, runs neither the SELECT nor the
\* INSERT, and leaves the table and its counter unchanged
C5_BlankIsInvalidNoEffect ==
    [][ (pc = "call" /\ pc' # pc /\ (raw = None \/ Blank(raw)))
            => /\ last'.cls = "false_positive"
               /\ last'.notice = "false_positive"
               /\ ~last'.queried
               /\ ~last'.attempted
               /\ pc' = "returned"
               /\ table' = table
               /\ seq' = seq
               /\ txOpen' = txOpen
      ]_vars

\* C5 witness: a whitespace-only raw_value was refused on a table with rows
C5_Witness ==
    /\ pc = "returned"
    /\ raw = <<" ", "\t", " ">>
    /\ last.notice = "false_positive"
    /\ Len(table) = 2

\* C6: the reset command leaves table data existing with no rows, whatever
\* it held, and the show_data that follows in the same handler prints the
\* empty notice; and a show command on a table with no rows prints the empty
\* notice
C6_ResetThenShowEmpty ==
    [][ /\ (pc = "dispatch" /\ pc' # pc /\ lower(user_input) = KwReset)
            => /\ tableExists'
               /\ table' = <<>>
               /\ last'.notice = "reset"
               /\ last'.showed = "empty"
               /\ last'.printed = <<>>
               /\ pc' = "prompt"
        /\ (pc = "dispatch" /\ pc' # pc /\ lower(user_input) = KwShow /\ table = <<>>)
            => /\ last'.showed = "empty"
               /\ table' = <<>>
      ]_vars

\* C6 witness: a reset removed rows and its show_data printed the empty notice
C6_Witness ==
    /\ pc = "prompt"
    /\ last.op = "reset"
    /\ last.dropped >= 1
    /\ last.showed = "empty"
    /\ table = <<>>

\* C7 (as claimed): whenever the process has ended, by the exit command or by
\* end of input, its exit status is 0
C7_ExitCodeZero ==
    pc \in {"terminated", "crashed"} => exitCode = 0

\* C8 (as claimed): whenever the process has ended, the connection opened at
\* startup has been closed
C8_ConnectionClosedAtEnd ==
    pc \in {"terminated", "crashed"} => conn = "closed"

\* C9: a line that trimmed and lowercased is exit, show or reset is never
\* classified or inserted, and no row has the key exit, show or reset
C9_KeywordNeverStored ==
    /\ \A i \in 1..Len(table) : table[i].value_norm \notin Keywords
    /\ (last.op = "candidate" /\ pc \in {"prompt", "inserting"})
           => lower(strip(line)) \notin Keywords
    /\ pc = "inserting" => lower(strip(raw)) \notin Keywords

\* C9 witness: the line "ShoW<TAB>" was handled as the show command on a
\* table with rows
C9_Witness ==
    /\ pc = "prompt"
    /\ line = <<"S", "h", "o", "W", "\t">>
    /\ last.op = "show"
    /\ last.showed = "entries"

\* C10: across every step that is not a reset, every row that existed before
\* the step exists after it with the same id, value, value_norm and
\* created_at
C10_RowsImmutable ==
    [][ ~ResetStep
            => \A i \in 1..Len(table) :
                   \E j \in 1..Len(table') : table'[j] = table[i]
      ]_vars

\* C10 witness: a row created at an earlier second is still the first row
\* after a later line was stored
C10_Witness ==
    /\ pc = "prompt"
    /\ last.notice = "inserted"
    /\ txOpen = FALSE
    /\ Len(table) >= 2
    /\ table[1].created_at < now

\* a step in which an INSERT (of the session or of another connection) added
\* a row
RowAdded == Len(table') = Len(table) + 1

\* C11 (as claimed): every successful insert is given an id strictly greater
\* than the id of every earlier successful insert of the run, resets included
C11_IdIncreasesAcrossResets ==
    [][ RowAdded => table'[Len(table')].id > maxId ]_vars

\* C11 (amended): every successful insert is given an id strictly greater
\* than the id of every row stored since table data was last dropped and
\* recreated, that is of every row the table holds, and than the table's
\* sqlite_sequence value
C11_IdIncreasesWithinTable ==
    [][ RowAdded
            => /\ \A i \in 1..Len(table) : table'[Len(table')].id > table[i].id
               /\ table'[Len(table')].id > seq
               /\ seq' = table'[Len(table')].id
      ]_vars

\* C11 witness: ids 1 and 2 had been given, the table was reset, and the
\* line stored next got id 1 again
C11_Witness ==
    /\ pc = "prompt"
    /\ last.notice = "inserted"
    /\ maxId = 2
    /\ Len(table) = 1
    /\ table[1].id = 1
    /\ seq = 1

\* C12: normalize is idempotent: normalizing the result of normalize gives
\* that result again
C12_NormalizeIdempotent ==
    pc = "normalized" => norm.nn = norm.n1

\* C12 witness: "A<Sigma> " was normalized to "a<final sigma>", and
\* normalizing that again has been computed
C12_Witness ==
    /\ pc = "normalized"
    /\ norm.s1 = <<"A", "Sigma", " ">>
    /\ norm.n1 = <<"a", "fsigma">>
    /\ norm.nn # None

\* s with every whitespace run after its first word character reduced to the
\* run's first character
RECURSIVE CollapseRuns(_)
CollapseRuns(s) ==
    IF Len(s) < 2 THEN s
    ELSE IF IsSpace(s[1]) /\ IsSpace(s[2]) THEN CollapseRuns(<<s[1]>> \o SubSeq(s, 3, Len(s)))
    ELSE <<s[1]>> \o CollapseRuns(Tail(s))

\* s with its interior whitespace runs reduced to one character each; the
\* leading and the trailing whitespace stay as they are
CollapseInterior(s) ==
    LET lead == Len(s) - Len(lstrip(s))
        trail == Len(lstrip(s)) - Len(strip(s))
    IN SubSeq(s, 1, lead) \o CollapseRuns(strip(s)) \o SubSeq(s, Len(s) - trail + 1, Len(s))

\* c and d are the same letter in the same or in the other case
CaseVariant(c, d) == c = d \/ lower_char(c) = d \/ lower_char(d) = c

\* a and b differ only in letter case or in the length of interior
\* whitespace runs
DifferOnlyInCaseOrRuns(a, b) ==
    LET x == CollapseInterior(a)
        y == CollapseInterior(b)
    IN /\ Len(x) = Len(y)
       /\ \A i \in 1..Len(x) :
              IF IsSpace(x[i]) \/ IsSpace(y[i])
              THEN IsSpace(x[i]) /\ IsSpace(y[i])
              ELSE CaseVariant(x[i], y[i])

UpperLetters == {"A", "B", "E", "X", "I", "T", "S", "H", "O", "W", "R", "Sigma"}

\* n has no leading or trailing space, no two spaces in a row, no whitespace
\* other than the space and no uppercase letter
Canonical(n) ==
    /\ n # <<>> => (n[1] # " " /\ n[Len(n)] # " ")
    /\ \A i \in 1..Len(n) - 1 : ~(n[i] = " " /\ n[i + 1] = " ")
    /\ \A i \in 1..Len(n) : n[i] \notin UpperLetters /\ n[i] # "\t"

\* C13 (as claimed): two strings that differ only in letter case or in the
\* length of interior whitespace runs have the same normalize result, and a
\* normalize result has no leading or trailing space, no run of two spaces
\* and no uppercase letter
C13_CaseAndRunsInsensitive ==
    pc = "normalized"
        => /\ DifferOnlyInCaseOrRuns(norm.s1, norm.s2) => norm.n1 = norm.n2
           /\ Canonical(norm.n1)
           /\ Canonical(norm.n2)

\* a step of the session in which show_data runs: the show command, the
\* reset command, and the end of the handling of a candidate line
ShowDataStep == pc \in {"dispatch", "inserting"} /\ pc' = "prompt"

\* C14: show_data prints the empty notice exactly when the table has no
\* rows; otherwise it prints one line per row, every row of the table exactly
\* once, in strictly ascending id order
C14_ShowListsTable ==
    [][ ShowDataStep
            => /\ last'.showed \in {"empty", "entries"}
               /\ last'.showed = "empty" <=> table' = <<>>
               /\ Len(last'.printed) = Len(table')
               /\ \A i \in 1..Len(table') :
                      Cardinality({k \in 1..Len(last'.printed) :
                                      last'.printed[k] = <<table'[i].id, table'[i].value,
                                                           table'[i].created_at>>}) = 1
               /\ \A k \in 1..Len(last'.printed) - 1 :
                      last'.printed[k][1] < last'.printed[k + 1][1]
      ]_vars

\* C14 witness: the show command listed a table of two rows
C14_Witness ==
    /\ pc = "prompt"
    /\ last.op = "show"
    /\ last.showed = "entries"
    /\ Len(last.printed) = 2
    /\ Len(table) = 2

\* C15: classify gives every raw_value exactly one result: false_positive
\* iff it is None or blank; otherwise redundant iff a row has the key
\* normalize(raw_value stripped), else unique; and the table, its counter
\* and its existence are as before
C15_ClassifyTotalReadOnly ==
    [][ (pc = "call" /\ pc' # pc)
            => /\ last'.cls \in {"false_positive", "redundant", "unique"}
               /\ last'.cls = "false_positive" <=> (raw = None \/ Blank(raw))
               /\ last'.cls = "redundant"
                      <=> /\ raw # None
                          /\ ~Blank(raw)
                          /\ RowsWithKey(table, normalize(strip(raw))) # {}
               /\ table' = table
               /\ seq' = seq
               /\ tableExists' = tableExists
      ]_vars

\* C15 witness: " a<TAB>b " was classified redundant against the stored
\* "A  B"
C15_Witness ==
    /\ pc = "returned"
    /\ raw = <<" ", "a", "\t", "b", " ">>
    /\ last.cls = "redundant"
    /\ last.queried
    /\ Len(table) = 2
    /\ table[2].value = <<"A", " ", " ", "B">>

\* C16: every init_db call leaves table data existing; with reset=False
\* (start without --reset) an existing table keeps its rows and its counter
\* and a missing one is created empty; with reset=True (start with --reset,
\* reset command, any number of times) the table is left existing and empty
C16_InitDbRepeatable ==
    [][ /\ (pc = "start" /\ pc' # pc /\ last'.op = "start")
            => /\ tableExists'
               /\ tableExists => (table' = table /\ seq' = seq)
               /\ ~tableExists => (table' = <<>> /\ seq' = 0)
               /\ last'.dropped = 0
        /\ (pc' # pc /\ last'.op \in {"start_reset", "reset"})
            => /\ tableExists'
               /\ table' = <<>>
               /\ seq' = 0
               /\ last'.dropped = Len(table)
      ]_vars

\* C16 witness: the row an earlier session stored is there after a start
\* without --reset
C16_Witness ==
    /\ pc = "prompt"
    /\ last.op = "start"
    /\ table = <<Row(1, <<"A">>, <<"a">>, 0)>>
    /\ seq = 1

\* the handling of a candidate line by the session ends
CandidateDone ==
    pc \in {"dispatch", "inserting"} /\ pc' = "prompt" /\ last'.op = "candidate"

\* C17: when the handling of a candidate line ends, insert_unique has printed
\* exactly one notice, one of inserted, redundant and false_positive; it is
\* the confirmation iff this step added a row holding this line; without the
\* confirmation the table is as before; and an INSERT refused by the
\* uniqueness constraint prints the redundant notice, as a duplicate found by
\* classify does.  While the call is between classify and its INSERT nothing
\* has been printed yet.
C17_OneNoticePerLine ==
    [][ /\ CandidateDone
            => /\ Len(last'.out) = 1
               /\ last'.out[1] \in {"inserted", "redundant", "false_positive"}
               /\ last'.notice = last'.out[1]
               /\ last'.out[1] = "inserted"
                      <=> /\ Len(table') = Len(table) + 1
                          /\ table'[Len(table')].value = user_input
               /\ last'.out[1] # "inserted" => table' = table
               /\ (last'.attempted /\ table' = table) => last'.out[1] = "redundant"
               /\ last'.cls = "redundant" => last'.out[1] = "redundant"
               /\ last'.cls = "false_positive" <=> last'.out[1] = "false_positive"
        /\ (pc = "dispatch" /\ pc' = "inserting") => last'.out = <<>>
      ]_vars

\* C17 witness: an INSERT refused by the uniqueness constraint printed the
\* one redundant notice
C17_Witness ==
    /\ pc = "prompt"
    /\ last.op = "candidate"
    /\ last.cls = "unique"
    /\ last.attempted
    /\ last.out = <<"redundant">>
    /\ txOpen

====
